---- MODULE Spec2Model ----
(***************************************************************************)
(* Errata (src/src/Errata.cc): handles sharing a reference-counted Data    *)
(* payload, the write gate, the note list with its aggregate severity and  *)
(* the sink notification run by release().                                 *)
(***************************************************************************)
EXTENDS Integers, Sequences, FiniteSets, TLC

\* ---- bounds of the model ------------------------------------------------
NumHandles == 2
MaxNotes == 2
MaxSinks == 2
MaxDepth == 2

\* ---- Severity, in the order of the name table ---------------------------
DIAG == 0
DEBUG == 1
INFO == 2
NOTE == 3
WARNING == 4
ERROR == 5
FATAL == 6
ALERT == 7
EMERGENCY == 8

Severity == DIAG..EMERGENCY

DEFAULT_SEVERITY == DIAG

FAILURE_SEVERITY == WARNING

\* ---- inputs ---------------------------------------------------------------
\* Texts are byte sequences.
DiskFull == <<100, 102>>

RetryScheduled == <<114>>

\* The (level, text) pairs passed to note(): one below FAILURE_SEVERITY (and
\* above DEFAULT_SEVERITY), one at it.
NoteInputs == {<<NOTE, DiskFull>>, <<WARNING, RetryScheduled>>}

\* Sinks are named by their place in the order of registration.
SinkIds == 1..MaxSinks

Handles == 1..NumHandles

\* A Data object lives in one of as many slots as there can be handles.
Payloads == 1..NumHandles

NULL == 0

VARIABLES
  live,       \* live[h]: the Errata object h is constructed and not yet destroyed
  _data,      \* _data[h]: the handle's Data pointer, NULL or a slot
  Data,       \* Data[p]: [alive, _notes, _level, _ref_count] of slot p
  Sink_List,  \* the registered sinks, in registration order
  pc,         \* "idle", "sinks" (release() is in its sink loop) or "crashed"
  rel,        \* the handle whose release() is running its sink loop, else NULL
  idx,        \* position of the sink loop in Sink_List
  calls,      \* what each sink invoked by the current operation was shown
  snap,       \* the notes and level of the payload when its last release began
  hist,       \* hist[p]: the notes added to slot p since creation or clear, oldest first
  last,       \* the operation performed last, with what its handle held before it
  stack,      \* the sink-loop positions of the releases suspended in a sink, innermost first
  out         \* what the last rendering operation was given and what it wrote

vars == <<live, _data, Data, Sink_List, pc, rel, idx, calls, snap, hist, last, stack, out>>

\* ---- pure helpers ---------------------------------------------------------
\* std::max on severities
std_max(a, b) == IF a < b THEN b ELSE a

\* Data::localize: allocate src.size() bytes and memcpy them
localize(src) == [i \in 1..Len(src) |-> src[i]]

\* a Data as constructed: empty list, default level, reference count 0
NewData == [alive |-> TRUE, _notes |-> <<>>, _level |-> DEFAULT_SEVERITY, _ref_count |-> 0]

\* the storage of a destructed Data
NoData == [alive |-> FALSE, _notes |-> <<>>, _level |-> DEFAULT_SEVERITY, _ref_count |-> 0]

\* Annotation(level, text)
Annotation(level, text) == [_level |-> level, _text |-> text]

\* the note is put at the back
prepend_back(list, n) == list \o <<n>>

\* IntrusiveDList::prepend as used by note
prepend(list, n) == <<n>> \o list

\* Data::empty
empty(d) == Len(d._notes) = 0

RECURSIVE Reverse(_)
Reverse(s) == IF s = <<>> THEN <<>> ELSE Reverse(Tail(s)) \o <<Head(s)>>

RECURSIVE MaxLevel(_)
MaxLevel(s) == IF s = <<>> THEN DEFAULT_SEVERITY ELSE std_max(Head(s)._level, MaxLevel(Tail(s)))

\* ---- queries --------------------------------------------------------------
\* Errata::begin .. Errata::end: the notes a range-for over the handle visits
begin_end(h) == IF _data[h] # NULL THEN Data[_data[h]]._notes ELSE <<>>

count(h) == IF _data[h] # NULL THEN Len(Data[_data[h]]._notes) ELSE 0

\* is_ok without the test of the count
is_ok_level(h) == _data[h] = NULL \/ Data[_data[h]]._level < FAILURE_SEVERITY

is_ok(h) == \/ _data[h] = NULL
            \/ Len(Data[_data[h]]._notes) = 0
            \/ Data[_data[h]]._level < FAILURE_SEVERITY

severity(h) == IF _data[h] # NULL THEN Data[_data[h]]._level ELSE DEFAULT_SEVERITY

\* ---- bookkeeping of the operation performed -------------------------------
refs(h) == IF _data[h] # NULL THEN Data[_data[h]]._ref_count ELSE 0

NoSnap == [_notes |-> <<>>, _level |-> DEFAULT_SEVERITY, _ref_count |-> 0]

\* what handle h refers to, the Data objects being D
Snap(h, D) == IF _data[h] = NULL THEN NoSnap
              ELSE [_notes |-> D[_data[h]]._notes, _level |-> D[_data[h]]._level,
                    _ref_count |-> D[_data[h]]._ref_count]

Op(op, h, that, res) == [op |-> op, res |-> res]

\* nothing was rendered
NoOut == [arg |-> NULL, lines |-> <<>>, text |-> <<>>]

\* an operation that runs no sink and leaves the release bookkeeping alone
Plain(op, h, that, res) ==
  /\ last' = Op(op, h, that, res)
  /\ calls' = <<>>
  /\ snap' = IF op \in {"dtor", "clear"} THEN Snap(h, Data) ELSE NoSnap
  /\ out' = NoOut
  /\ UNCHANGED <<pc, rel, idx, stack>>

Init ==
  /\ live = [h \in Handles |-> FALSE]
  /\ _data = [h \in Handles |-> NULL]
  /\ Data = [p \in Payloads |-> NoData]
  /\ Sink_List = <<>>
  /\ pc = "idle"
  /\ rel = NULL
  /\ idx = 0
  /\ calls = <<>>
  /\ snap = NoSnap
  /\ hist = [p \in Payloads |-> <<>>]
  /\ last = [op |-> "init", res |-> "ok"]
  /\ stack = <<>>
  /\ out = NoOut

\* ---- construction and copy ------------------------------------------------
\* Errata(): a handle without Data
Construct(h) ==
  /\ pc = "idle"
  /\ ~live[h]
  /\ live' = [live EXCEPT ![h] = TRUE]
  /\ _data' = [_data EXCEPT ![h] = NULL]
  /\ Plain("construct", h, NULL, "ok")
  /\ UNCHANGED <<Data, Sink_List, hist>>

\* Errata(that): share that's Data and count the new reference
Copy(that, h) ==
  /\ pc = "idle"
  /\ live[that]
  /\ ~live[h]
  /\ live' = [live EXCEPT ![h] = TRUE]
  /\ _data' = [_data EXCEPT ![h] = _data[that]]
  /\ Data' = IF _data[that] # NULL
             THEN [Data EXCEPT ![_data[that]]._ref_count = @ + 1]
             ELSE Data
  /\ Plain("copy", that, h, "ok")
  /\ UNCHANGED <<Sink_List, hist>>

\* Errata::register_sink
register_sink(s) ==
  /\ pc = "idle"
  /\ s = Len(Sink_List) + 1
  /\ Sink_List' = Append(Sink_List, s)
  /\ Plain("register_sink", NULL, NULL, "ok")
  /\ UNCHANGED <<live, _data, Data, hist>>

\* ---- Data creation and the write gate -------------------------------------
\* the slot a new Data of handle h is made in: any unused one
FreeSlot(h) == IF ~Data[h].alive THEN h ELSE CHOOSE p \in Payloads : ~Data[p].alive

\* Errata::data: the slot the handle refers to once data() has run
data_slot(h) == IF _data[h] # NULL THEN _data[h] ELSE FreeSlot(h)

\* data() without ++_ref_count
data_noref(h) == IF _data[h] # NULL THEN Data ELSE [Data EXCEPT ![FreeSlot(h)] = NewData]

\* Errata::data: the Data objects once data() has run (a new Data gets its first reference)
data(h) == IF _data[h] # NULL
           THEN Data
           ELSE [Data EXCEPT ![FreeSlot(h)] = [NewData EXCEPT !._ref_count = @ + 1]]

\* the gate with the bound off by one
shared_write_off(h) == _data[h] # NULL /\ Data[_data[h]]._ref_count > 2

\* Errata::writeable_data: the case that throws "Shared write to Errata"
shared_write(h) == _data[h] # NULL /\ Data[_data[h]]._ref_count > 1

\* the handle lets go of its Data before the throw
Throw_detached(op, h, that) ==
  /\ Plain(op, h, that, "SharedWriteViolation")
  /\ _data' = [_data EXCEPT ![h] = NULL]
  /\ UNCHANGED <<live, Data, Sink_List, hist>>

\* the operation throws: nothing but the bookkeeping changes
Throw(op, h, that) ==
  /\ Plain(op, h, that, "SharedWriteViolation")
  /\ UNCHANGED <<live, _data, Data, Sink_List, hist>>

\* the body of note / note_localized after writeable_data: prepend and raise the level
Annotate(d, level, text) ==
  [d EXCEPT !._notes = prepend(@, Annotation(level, text)),
            !._level = std_max(@, level)]

\* Errata::data as an operation of its own
ensure_data(h) ==
  /\ pc = "idle"
  /\ live[h]
  /\ _data' = [_data EXCEPT ![h] = data_slot(h)]
  /\ Data' = data(h)
  /\ Plain("data", h, NULL, "ok")
  /\ UNCHANGED <<live, Sink_List, hist>>

\* Errata::note(Severity, string_view)
note(h, level, text) ==
  /\ pc = "idle"
  /\ live[h]
  /\ IF shared_write(h)
     THEN Throw("note", h, NULL)
     ELSE /\ count(h) < MaxNotes
          /\ _data' = [_data EXCEPT ![h] = data_slot(h)]
          /\ Data' = [data(h) EXCEPT ![data_slot(h)] = Annotate(@, level, localize(text))]
          /\ hist' = [hist EXCEPT ![data_slot(h)] = Append(@, Annotation(level, text))]
          /\ Plain("note", h, NULL, "ok")
          /\ UNCHANGED <<live, Sink_List>>

\* Errata::note_localized(Severity, MemSpan): the span is used as it is
note_localized(h, level, span) ==
  /\ pc = "idle"
  /\ live[h]
  /\ IF shared_write(h)
     THEN Throw("note_localized", h, NULL)
     ELSE /\ count(h) < MaxNotes
          /\ _data' = [_data EXCEPT ![h] = data_slot(h)]
          /\ Data' = [data(h) EXCEPT ![data_slot(h)] = Annotate(@, level, span)]
          /\ hist' = [hist EXCEPT ![data_slot(h)] = Append(@, Annotation(level, span))]
          /\ Plain("note_localized", h, NULL, "ok")
          /\ UNCHANGED <<live, Sink_List>>

\* Errata::alloc
alloc(h) ==
  /\ pc = "idle"
  /\ live[h]
  /\ IF shared_write(h)
     THEN Throw("alloc", h, NULL)
     ELSE /\ _data' = [_data EXCEPT ![h] = data_slot(h)]
          /\ Data' = data(h)
          /\ Plain("alloc", h, NULL, "ok")
          /\ UNCHANGED <<live, Sink_List, hist>>

\* the loop run from the tail of the list, which keeps the order of that
RECURSIVE note_each_back(_, _)
note_each_back(d, list) ==
  IF list = <<>> THEN d
  ELSE Annotate(note_each_back(d, Tail(list)), Head(list)._level, localize(Head(list)._text))

\* the loop of note(that): note(m._level, m._text) for each m of the list, head first
RECURSIVE note_each(_, _)
note_each(d, list) ==
  IF list = <<>> THEN d
  ELSE note_each(Annotate(d, Head(list)._level, localize(Head(list)._text)), Tail(list))

\* Errata::note(const self_type &)
note_that(h, that) ==
  /\ pc = "idle"
  /\ live[h]
  /\ live[that]
  /\ IF begin_end(that) = <<>>
     THEN /\ Plain("merge", h, that, "ok")
          /\ UNCHANGED <<live, _data, Data, Sink_List, hist>>
     ELSE IF shared_write(h)
     THEN Throw("merge", h, that)
     ELSE /\ count(h) + count(that) <= MaxNotes
          /\ _data' = [_data EXCEPT ![h] = data_slot(h)]
          /\ Data' = [data(h) EXCEPT ![data_slot(h)] = note_each(@, begin_end(that))]
          /\ hist' = [hist EXCEPT ![data_slot(h)] = @ \o begin_end(that)]
          /\ Plain("merge", h, that, "ok")
          /\ UNCHANGED <<live, Sink_List>>

\* ---- release ----------------------------------------------------------------
\* the Data is destroyed while one reference is left
release_last_early(d) == d._ref_count <= 1

\* release(): the decremented count is 0
release_last(d) == d._ref_count = 0

\* the sinks run only for a failure
release_notifies_failure(d) == ~empty(d) /\ d._level >= FAILURE_SEVERITY

\* the sinks run for an empty list too
release_notifies_always(d) == TRUE

\* release(): the sinks are run
release_notifies(d) == ~empty(d)

\* Errata::release on handle h, the Data objects being D and the histories H
\* when it starts; dies: the handle is being destructed.
release(h, D, H, op, dies) ==
  LET p == _data[h]
      R == [D EXCEPT ![p]._ref_count = @ - 1]
  IN
  IF p = NULL
  THEN /\ Data' = D
       /\ hist' = H
       /\ _data' = _data
       /\ live' = [live EXCEPT ![h] = IF dies THEN FALSE ELSE @]
       /\ Plain(op, h, NULL, "ok")
  ELSE IF release_last(R[p]) /\ release_notifies(R[p])
  THEN /\ Data' = R
       /\ hist' = H
       /\ pc' = "sinks"
       /\ rel' = h
       /\ idx' = 1
       /\ calls' = <<>>
       /\ snap' = Snap(h, Data)
       /\ last' = Op(op, h, NULL, "running")
       /\ out' = NoOut
       /\ UNCHANGED <<live, _data, stack>>
  ELSE /\ Data' = IF release_last(R[p]) THEN [R EXCEPT ![p] = NoData] ELSE R
       /\ hist' = IF release_last(R[p]) THEN [H EXCEPT ![p] = <<>>] ELSE H
       /\ _data' = [_data EXCEPT ![h] = NULL]
       /\ live' = [live EXCEPT ![h] = IF dies THEN FALSE ELSE @]
       /\ Plain(op, h, NULL, "ok")

\* Errata::~Errata
dtor(h) ==
  /\ pc = "idle"
  /\ live[h]
  /\ release(h, Data, hist, "dtor", TRUE)
  /\ UNCHANGED Sink_List

\* (*f)(*this): the next sink is called with the releasing handle
SinkCall ==
  /\ pc = "sinks"
  /\ idx <= Len(Sink_List)
  /\ calls' = Append(calls, [sink |-> Sink_List[idx],
                             alive |-> Data[_data[rel]].alive,
                             _notes |-> begin_end(rel),
                             _level |-> severity(rel),
                             ok |-> is_ok(rel)])
  /\ idx' = idx + 1
  /\ UNCHANGED <<live, _data, Data, Sink_List, pc, rel, snap, hist, last, stack, out>>

\* _data->~Data(); _data = nullptr; after the sink loop
ReleaseEnd ==
  /\ pc = "sinks"
  /\ stack = <<>>
  /\ idx > Len(Sink_List)
  /\ Data' = [Data EXCEPT ![_data[rel]] = NoData]
  /\ hist' = [hist EXCEPT ![_data[rel]] = <<>>]
  /\ _data' = [_data EXCEPT ![rel] = NULL]
  /\ live' = [live EXCEPT ![rel] = IF last.op = "dtor" THEN FALSE ELSE @]
  /\ pc' = "idle"
  /\ rel' = NULL
  /\ idx' = 0
  /\ last' = [last EXCEPT !.res = "ok"]
  /\ UNCHANGED <<Sink_List, calls, snap, stack, out>>

\* Errata::clear on a handle without Data: _data->_notes dereferences a null
\* pointer, which is undefined; the call either faults or comes back.
clear_null(h) ==
  /\ pc = "idle"
  /\ live[h]
  /\ _data[h] = NULL
  /\ \/ /\ pc' = "crashed"
        /\ last' = Op("clear", h, NULL, "crash")
        /\ UNCHANGED <<live, _data, Data, Sink_List, rel, idx, calls, snap, hist, stack, out>>
     \/ /\ Plain("clear", h, NULL, "ok")
        /\ UNCHANGED <<live, _data, Data, Sink_List, hist>>

\* the list is not emptied
notes_clear_not(d) == d

\* _data->_notes.clear(): the list is emptied, the level is left as it is
notes_clear(d) == [d EXCEPT !._notes = <<>>]

\* Errata::clear on a handle with Data: empty the list, then release
clear(h) ==
  /\ pc = "idle"
  /\ live[h]
  /\ _data[h] # NULL
  /\ release(h, [Data EXCEPT ![_data[h]] = notes_clear(@)],
                [hist EXCEPT ![_data[h]] = <<>>], "clear", FALSE)
  /\ UNCHANGED Sink_List

\* ---- a sink that copies the Errata it is given ----------------------------------
\* (*f)(*this) where the sink makes a copy of its argument and drops the copy
\* before it returns: the copy constructor counts a reference on the Data
\* whose count release() has taken to 0, and the destructor of the copy runs
\* release() on it, inside the sink.
SinkCopyDrop ==
  /\ pc = "sinks"
  /\ idx <= Len(Sink_List)
  /\ Len(stack) < MaxDepth
  /\ Data[_data[rel]].alive
  /\ LET p == _data[rel]
         C == [Data EXCEPT ![p]._ref_count = @ + 1]
         R == [C EXCEPT ![p]._ref_count = @ - 1]
     IN /\ calls' = Append(calls, [sink |-> Sink_List[idx],
                                   alive |-> Data[p].alive,
                                   _notes |-> begin_end(rel),
                                   _level |-> severity(rel),
                                   ok |-> is_ok(rel)])
        /\ IF release_last(R[p]) /\ release_notifies(R[p])
           THEN /\ Data' = R
                /\ stack' = <<idx>> \o stack
                /\ idx' = 1
                /\ hist' = hist
           ELSE /\ Data' = IF release_last(R[p]) THEN [R EXCEPT ![p] = NoData] ELSE R
                /\ hist' = IF release_last(R[p]) THEN [hist EXCEPT ![p] = <<>>] ELSE hist
                /\ stack' = stack
                /\ idx' = idx + 1
  /\ UNCHANGED <<live, _data, Sink_List, pc, rel, snap, last, out>>

\* the release() of the copy is past its sink loop: _data->~Data(), the copy
\* is gone, the sink returns and the loop it was called from goes on
NestedEnd ==
  /\ pc = "sinks"
  /\ stack # <<>>
  /\ idx > Len(Sink_List)
  /\ Data' = [Data EXCEPT ![_data[rel]] = NoData]
  /\ hist' = [hist EXCEPT ![_data[rel]] = <<>>]
  /\ idx' = Head(stack) + 1
  /\ stack' = Tail(stack)
  /\ UNCHANGED <<live, _data, Sink_List, pc, rel, calls, snap, last, out>>

\* the Data of the releasing handle is already destroyed: reading it in a sink
\* and running ~Data on it again are undefined, and may fault
UseAfterDestroy ==
  /\ pc = "sinks"
  /\ ~Data[_data[rel]].alive
  /\ pc' = "crashed"
  /\ last' = [last EXCEPT !.res = "crash"]
  /\ UNCHANGED <<live, _data, Data, Sink_List, rel, idx, calls, snap, hist, stack, out>>

\* ---- rendering ----------------------------------------------------------------
\* characters written by the renderers
SP == 32

NL == 10

LBRACKET == 91

RBRACKET == 93

COLON == 58

ZERO == 48

\* a byte a read past the end of the name table may yield
JUNK == 63

\* bwformat(Severity): the name table (DIAG, DEBUG, INFO, NOTE, WARNING, ERROR,
\* FATAL, ALERT, EMERGENCY)
name == << <<68, 73, 65, 71>>,
           <<68, 69, 66, 85, 71>>,
           <<73, 78, 70, 79>>,
           <<78, 79, 84, 69>>,
           <<87, 65, 82, 78, 73, 78, 71>>,
           <<69, 82, 82, 79, 82>>,
           <<70, 65, 84, 65, 76>>,
           <<65, 76, 69, 82, 84>>,
           <<69, 77, 69, 82, 71, 69, 78, 67, 89>> >>

\* the values a Severity object can hold: the enumerators and one value past them
SeverityValues == DIAG..(EMERGENCY + 1)

\* The (level, text) pairs noted before rendering.
RenderInputs == NoteInputs \cup {<<ERROR, DiskFull>>}

\* operator<< of an int: its decimal digits
RECURSIVE Decimal(_)
Decimal(n) == IF n < 10 THEN <<ZERO + n>> ELSE Decimal(n \div 10) \o <<ZERO + (n % 10)>>

\* the lead is never set
next_lead_none(lead) == lead

\* if (0 == lead.size()) lead = "  "
next_lead(lead) == IF Len(lead) = 0 THEN <<SP, SP>> ELSE lead

\* the loop of write / bwformat: the lead and the note of each line, head first
RECURSIVE render_lines(_, _)
render_lines(list, lead) ==
  IF list = <<>> THEN <<>>
  ELSE <<[lead |-> lead, m |-> Head(list)]>> \o render_lines(Tail(list), next_lead(lead))

\* write: out << lead << " [" << static_cast<int>(m._level) << "]: " << m._text << std::endl
write_line(l) ==
  l.lead \o <<SP, LBRACKET>> \o Decimal(l.m._level) \o <<RBRACKET, COLON, SP>> \o l.m._text \o <<NL>>

\* bwformat: bw.print("{}[{}] {}\n", lead, m.severity(), m.text())
bwformat_line(l) ==
  l.lead \o <<LBRACKET>> \o name[l.m._level + 1] \o <<RBRACKET, SP>> \o l.m._text \o <<NL>>

\* the characters written for the lines by write
RECURSIVE write_text(_)
write_text(lines) == IF lines = <<>> THEN <<>> ELSE write_line(Head(lines)) \o write_text(Tail(lines))

\* the characters written for the lines by bwformat
RECURSIVE bwformat_text(_)
bwformat_text(lines) ==
  IF lines = <<>> THEN <<>> ELSE bwformat_line(Head(lines)) \o bwformat_text(Tail(lines))

\* a rendering operation: nothing changes but the bookkeeping and the output
Rendered(op, res, o) ==
  /\ last' = Op(op, NULL, NULL, res)
  /\ out' = o
  /\ calls' = <<>>
  /\ snap' = NoSnap
  /\ UNCHANGED <<live, _data, Data, Sink_List, rel, idx, hist, stack>>

\* Errata::write
write(h) ==
  /\ pc = "idle"
  /\ live[h]
  /\ Rendered("write", "ok", [arg |-> h,
                              lines |-> render_lines(begin_end(h), <<>>),
                              text |-> write_text(render_lines(begin_end(h), <<>>))])
  /\ UNCHANGED pc

\* bwformat(BufferWriter &, bwf::Spec const &, Errata const &)
bwformat_errata(h) ==
  /\ pc = "idle"
  /\ live[h]
  /\ Rendered("bwformat", "ok", [arg |-> h,
                                 lines |-> render_lines(begin_end(h), <<>>),
                                 text |-> bwformat_text(render_lines(begin_end(h), <<>>))])
  /\ UNCHANGED pc

\* bwformat(BufferWriter &, bwf::Spec const &, Errata::Severity): name[level],
\* with no test of level; past the table the read is undefined: it faults or
\* yields whatever lies there.
bwformat_severity(level) ==
  /\ pc = "idle"
  /\ IF level + 1 \in DOMAIN name
     THEN /\ Rendered("bwformat_severity", "ok", [arg |-> level, lines |-> <<>>, text |-> name[level + 1]])
          /\ UNCHANGED pc
     ELSE \/ /\ Rendered("bwformat_severity", "crash", [arg |-> level, lines |-> <<>>, text |-> <<>>])
             /\ pc' = "crashed"
          \/ /\ Rendered("bwformat_severity", "ok", [arg |-> level, lines |-> <<>>, text |-> <<JUNK>>])
             /\ UNCHANGED pc

\* ---- properties -------------------------------------------------------------
\* h and g are two live handles on one Data
Sharing(h, g) == h # g /\ live[h] /\ live[g] /\ _data[h] # NULL /\ _data[h] = _data[g]

\* s is what is left of t after some notes were put in front of it
IsSuffix(s, t) == Len(s) <= Len(t) /\ SubSeq(t, Len(t) - Len(s) + 1, Len(t)) = s

\* a step of note, note_localized or alloc on handle h
WriteStep(h) ==
  \/ \E in \in NoteInputs : note(h, in[1], in[2]) \/ note_localized(h, in[1], in[2])
  \/ alloc(h)

\* C1: note, note_localized and alloc on a handle whose Data has ref_count > 1
\* fail with SharedWriteViolation and change nothing; on a handle that is the
\* only one on its Data (or has none) they succeed.
C1_SharedWriteRejected ==
  [][\A h \in Handles :
       WriteStep(h) =>
         IF refs(h) > 1
         THEN last'.res = "SharedWriteViolation" /\ UNCHANGED <<_data, Data>>
         ELSE last'.res = "ok" /\ _data'[h] # NULL /\ Data'[_data'[h]]._ref_count = 1]_vars

C1_Witness ==
  /\ last.op \in {"note", "note_localized", "alloc"}
  /\ last.res = "SharedWriteViolation"
  /\ \E h, g \in Handles : Sharing(h, g) /\ refs(h) = 2

\* the release of the last handle of a Data with notes is running or has just ended
Notifying == last.op = "dtor" /\ snap._ref_count = 1 /\ snap._notes # <<>>

\* C2 (state part): while and after the last handle of a non-empty Data is
\* dropped, the sinks called so far are the first sinks of Sink_List in order,
\* each was shown the live Data with the notes and level it had before the
\* drop; during the loop the Data is alive and unchanged; at the end every
\* sink was called once.
C2_Calls ==
  Notifying =>
    /\ Len(calls) <= Len(Sink_List)
    /\ \A i \in 1..Len(calls) :
         /\ calls[i].sink = Sink_List[i]
         /\ calls[i].alive
         /\ calls[i]._notes = snap._notes
         /\ calls[i]._level = snap._level
    /\ pc = "sinks" =>
         /\ Len(calls) = idx - 1
         /\ Data[_data[rel]].alive
         /\ Data[_data[rel]]._notes = snap._notes
         /\ Data[_data[rel]]._level = snap._level
    /\ pc = "idle" => Len(calls) = Len(Sink_List) /\ last.res = "ok"

\* C2: dropping the last handle of a Data with notes invokes every registered
\* sink once, in registration order, each seeing the notes and level intact,
\* and the Data is destroyed only by the step after the last sink; the
\* aggregate severity plays no part.
C2_SinksOnLastDrop ==
  /\ []C2_Calls
  /\ [][ReleaseEnd => /\ Len(calls) = Len(Sink_List)
                      /\ Data[_data[rel]].alive
                      /\ ~Data'[_data[rel]].alive]_vars

C2_Witness ==
  /\ Notifying
  /\ pc = "idle"
  /\ last.res = "ok"
  /\ Len(calls) = 2
  /\ Len(snap._notes) = 2
  /\ snap._level < FAILURE_SEVERITY

\* C3: a drop of a handle whose Data has no notes, or that has no Data, runs
\* no sink: it ends at once and nothing is called.
C3_NoSinkWhenEmpty ==
  (last.op = "dtor" /\ snap._notes = <<>>) => (pc = "idle" /\ calls = <<>> /\ last.res = "ok")

C3_Witness ==
  /\ last.op = "dtor"
  /\ snap._ref_count = 1
  /\ snap._notes = <<>>
  /\ Sink_List # <<>>
  /\ pc = "idle"

\* C4: clear() on a handle with Data leaves that handle with count() = 0 and
\* is_ok(), runs no sink, and leaves no note on the Data for a later drop to
\* show: a sink is only ever shown notes added since the last clear.
C4_ClearSilences ==
  /\ [][\A h \in Handles :
          clear(h) => /\ count(h)' = 0
                      /\ is_ok(h)'
                      /\ pc' = "idle"
                      /\ calls' = <<>>
                      /\ Data'[_data[h]]._notes = <<>>]_vars
  /\ [](pc = "sinks" => \A i \in 1..Len(calls) :
                           calls[i]._notes = Reverse(hist[_data[rel]]))

C4_Witness ==
  /\ last.op = "clear"
  /\ last.res = "ok"
  /\ snap._notes # <<>>
  /\ snap._level >= FAILURE_SEVERITY
  /\ Sink_List # <<>>
  /\ pc = "idle"
  /\ calls = <<>>

\* C5: on a handle that is the only one on its Data (or has none), count() is
\* the number of notes added since the Data was last empty and severity() is
\* the greatest of their levels, DEFAULT_SEVERITY when there are none.
C5_CountAndMax ==
  \A h \in Handles :
    (live[h] /\ refs(h) <= 1) =>
      /\ count(h) = (IF _data[h] = NULL THEN 0 ELSE Len(hist[_data[h]]))
      /\ severity(h) = (IF _data[h] = NULL THEN DEFAULT_SEVERITY ELSE MaxLevel(hist[_data[h]]))

\* C6: for every live handle, is_ok() holds exactly when count() = 0 or
\* severity() < FAILURE_SEVERITY.
C6_IsOkIff ==
  \A h \in Handles :
    live[h] => (is_ok(h) <=> (count(h) = 0 \/ severity(h) < FAILURE_SEVERITY))

C6_Witness ==
  \E h \in Handles :
    /\ live[h]
    /\ _data[h] # NULL
    /\ count(h) = 0
    /\ severity(h) >= FAILURE_SEVERITY
    /\ is_ok(h)

\* C7: the level of every live Data is the greatest level of its notes, and
\* DEFAULT_SEVERITY when it has none.
C7_AggregateIsMax ==
  \A p \in Payloads :
    Data[p].alive => Data[p]._level = MaxLevel(Data[p]._notes)

\* C8: clear() never fails, on a handle without Data either, and leaves the
\* handle without Data.
C8_ClearTotal ==
  /\ last.op = "clear" => last.res = "ok"
  /\ pc # "crashed"

\* C9: while a Data is shared no step changes the notes or the severity seen
\* through a handle that stays on it, and clear() on a sharing handle is
\* rejected with SharedWriteViolation.
C9_SharedIsolated ==
  [][/\ \A g \in Handles :
          (live[g] /\ refs(g) > 1 /\ live'[g] /\ _data'[g] = _data[g]) =>
            /\ begin_end(g)' = begin_end(g)
            /\ severity(g)' = severity(g)
     /\ \A h \in Handles :
          (clear(h) /\ refs(h) > 1) => last'.res = "SharedWriteViolation"]_vars

\* C10: the notes of a handle, from begin() to end(), are the notes added, with
\* their levels and texts, newest first; and but for clear() and the
\* destruction of the Data a step only puts notes in front of those present.
C10_NewestFirst ==
  /\ [](\A h \in Handles :
          (live[h] /\ _data[h] # NULL) => begin_end(h) = Reverse(hist[_data[h]]))
  /\ [][\A p \in Payloads :
          (Data[p].alive /\ Data'[p].alive /\ last'.op # "clear") =>
            IsSuffix(Data[p]._notes, Data'[p]._notes)]_vars

C10_Witness ==
  \E h \in Handles :
    /\ live[h]
    /\ count(h) = 2
    /\ begin_end(h)[1] # begin_end(h)[2]
    /\ hist[_data[h]][2] = begin_end(h)[1]
    /\ last.op \in {"note", "note_localized"}

\* C11: h.note(that), h not shared and that another handle: count() of h grows
\* by that.count(), severity() of h becomes the greatest of its old value and
\* the levels of that's notes, the notes of that come in front of the old
\* notes of h in the reverse of their order in that, and that keeps its notes,
\* level and reference count; with an empty that nothing changes and h gets no
\* Data.
C11_Merge ==
  [][\A h, that \in Handles :
       (h # that /\ refs(h) <= 1 /\ note_that(h, that)) =>
         /\ last'.res = "ok"
         /\ count(h)' = count(h) + count(that)
         /\ severity(h)' = std_max(severity(h), MaxLevel(begin_end(that)))
         /\ begin_end(h)' = Reverse(begin_end(that)) \o begin_end(h)
         /\ begin_end(that)' = begin_end(that)
         /\ severity(that)' = severity(that)
         /\ refs(that)' = refs(that)
         /\ _data'[that] = _data[that]
         /\ begin_end(that) = <<>> => UNCHANGED <<_data, Data>>]_vars

C11_Witness ==
  /\ last.op = "merge"
  /\ last.res = "ok"
  /\ \E h, that \in Handles :
       /\ live[h] /\ live[that]
       /\ _data[h] # NULL /\ _data[that] # NULL /\ _data[h] # _data[that]
       /\ count(that) = 2
       /\ begin_end(that)[1] # begin_end(that)[2]
       /\ begin_end(h) = Reverse(begin_end(that))

\* the handles that refer to slot p
Referring(p) == {h \in Handles : live[h] /\ _data[h] = p}

\* C14: between operations the reference count of every live Data is the
\* number of handles that refer to it, at least 1, and no handle refers to a
\* destroyed Data; a Data is destroyed only by a step that finds its count at
\* 0 after the decrement, and no handle refers to it afterwards.
C14_RefCount ==
  /\ [](pc # "sinks" =>
          /\ \A p \in Payloads :
               Data[p].alive => (Data[p]._ref_count = Cardinality(Referring(p))
                                 /\ Data[p]._ref_count >= 1)
          /\ \A h \in Handles :
               (live[h] /\ _data[h] # NULL) => Data[_data[h]].alive)
  /\ [][\A p \in Payloads :
          (Data[p].alive /\ ~Data'[p].alive) =>
            /\ Data[p]._ref_count <= 1
            /\ Cardinality(Referring(p)) = 1
            /\ Referring(p)' = {}]_vars

C14_Witness ==
  /\ last.op = "dtor"
  /\ last.res = "ok"
  /\ pc = "idle"
  /\ snap._ref_count = 1
  /\ \A p \in Payloads : ~Data[p].alive
  /\ \E h \in Handles : live[h]

\* C15: a write that fails with SharedWriteViolation leaves every handle and
\* every Data as they were, and a merge of a non-empty Errata into a shared
\* handle fails so, adding none of the notes.
C15_RejectedWriteNoChange ==
  [][/\ last'.res = "SharedWriteViolation" => UNCHANGED <<live, _data, Data, Sink_List>>
     /\ \A h, that \in Handles :
          (note_that(h, that) /\ refs(h) > 1 /\ begin_end(that) # <<>>) =>
            last'.res = "SharedWriteViolation"]_vars

C15_Witness ==
  /\ last.op = "merge"
  /\ last.res = "SharedWriteViolation"
  /\ \E h, g \in Handles : Sharing(h, g) /\ count(h) > 0

\* C16: the drop of a handle whose Data has other references takes one from
\* the count, detaches that handle alone, runs no sink and leaves the Data
\* alive with its notes and level.
C16_DropNotLast ==
  [][\A h \in Handles :
       (dtor(h) /\ refs(h) > 1) =>
         /\ Data' = [Data EXCEPT ![_data[h]]._ref_count = @ - 1]
         /\ Data'[_data[h]].alive
         /\ _data' = [_data EXCEPT ![h] = NULL]
         /\ pc' = "idle"
         /\ calls' = <<>>]_vars

C16_Witness ==
  /\ last.op = "dtor"
  /\ last.res = "ok"
  /\ snap._ref_count = 2
  /\ snap._notes # <<>>
  /\ Sink_List # <<>>
  /\ \E g \in Handles : live[g] /\ refs(g) = 1 /\ begin_end(g) = snap._notes

\* C18: clear() leaves the handle without Data, and note(level, text) on a
\* handle without Data makes a new Data, not one that was alive, with
\* reference count 1, one note and level max(DEFAULT_SEVERITY, level); no
\* other handle is attached to it.
C18_FreshAfterClear ==
  [][\A h \in Handles :
       /\ clear(h) => _data'[h] = NULL
       /\ \A in \in NoteInputs :
            (note(h, in[1], in[2]) /\ _data[h] = NULL) =>
              /\ _data'[h] # NULL
              /\ ~Data[_data'[h]].alive
              /\ Data'[_data'[h]]._ref_count = 1
              /\ count(h)' = 1
              /\ severity(h)' = std_max(DEFAULT_SEVERITY, in[1])
              /\ \A g \in Handles \ {h} : _data'[g] = _data[g] /\ _data'[g] # _data'[h]]_vars

C18_Witness ==
  /\ last.op = "note"
  /\ last.res = "ok"
  /\ \E h, g \in Handles :
       /\ live[h] /\ live[g]
       /\ _data[h] # NULL /\ _data[g] # NULL /\ _data[h] # _data[g]
       /\ count(h) = 1 /\ refs(h) = 1 /\ severity(h) = NOTE
       /\ count(g) = 0 /\ severity(g) = WARNING

\* C17: while the sinks run for a Data, also when a sink copies the Errata it
\* is given and drops the copy, every sink is shown the live Data, no sink is
\* called twice, and ~Data runs once, on the live Data.
C17_SinkReentrancy ==
  /\ [](last.op = "dtor" =>
          /\ \A i \in 1..Len(calls) : calls[i].alive
          /\ \A i, j \in 1..Len(calls) : i # j => calls[i].sink # calls[j].sink)
  /\ [][(ReleaseEnd \/ NestedEnd) => Data[_data[rel]].alive]_vars

\* the line the claimed format gives a note: <indent>[<severity-name>]: <text>\n
ClaimedLine(indent, m) ==
  indent \o <<LBRACKET>> \o name[m._level + 1] \o <<RBRACKET, COLON, SP>> \o m._text \o <<NL>>

\* the claimed rendering of a list of notes, the first line having indent
RECURSIVE ClaimedText(_, _)
ClaimedText(list, indent) ==
  IF list = <<>> THEN <<>>
  ELSE ClaimedLine(indent, Head(list)) \o ClaimedText(Tail(list), <<SP, SP>>)

\* C12: write and the formatted render emit, for each note from the newest to
\* the oldest, the line <indent>[<severity-name>]: <text>\n, the indent empty
\* for the first line and two spaces for the others, and nothing for an empty
\* Errata.
C12_RenderFormat ==
  last.op \in {"write", "bwformat"} =>
    /\ Len(out.lines) = count(out.arg)
    /\ out.text = ClaimedText(begin_end(out.arg), <<>>)

\* notes were added to h as in the scenario: (ERROR, disk full), then (WARNING, retry scheduled)
Scenario(h) ==
  /\ live[h]
  /\ _data[h] # NULL
  /\ hist[_data[h]] = <<Annotation(ERROR, DiskFull), Annotation(WARNING, RetryScheduled)>>

C19_NameLookup ==
  last.op = "bwformat_severity" =>
    IF out.arg \in Severity
    THEN last.res = "ok" /\ out.text = name[out.arg + 1]
    ELSE last.res = "rejected"

Next ==
  \/ \E h \in Handles : Construct(h)
  \/ \E that, h \in Handles : Copy(that, h)
  \/ \E s \in SinkIds : register_sink(s)
  \/ \E h \in Handles : ensure_data(h)
  \/ \E h \in Handles, in \in NoteInputs : note(h, in[1], in[2])
  \/ \E h \in Handles, in \in NoteInputs : note_localized(h, in[1], in[2])
  \/ \E h \in Handles : alloc(h)
  \/ \E h, that \in Handles : note_that(h, that)
  \/ \E h \in Handles : dtor(h)
  \/ SinkCall
  \/ ReleaseEnd
  \/ \E h \in Handles : clear_null(h)
  \/ \E h \in Handles : clear(h)

Spec == Init /\ [][Next]_vars

\* Rendering: handles are built up with notes and rendered.
NextRender ==
  \/ \E h \in Handles : Construct(h)
  \/ \E h \in Handles, in \in RenderInputs : note(h, in[1], in[2])
  \/ \E h \in Handles : write(h)
  \/ \E h \in Handles : bwformat_errata(h)
  \/ \E level \in SeverityValues : bwformat_severity(level)

SpecRender == Init /\ [][NextRender]_vars

\* Sinks may copy the Errata they are given.
NextReentrant ==
  \/ Next
  \/ SinkCopyDrop
  \/ NestedEnd
  \/ UseAfterDestroy

SpecReentrant == Init /\ [][NextReentrant]_vars

====
